---- MODULE Spec2Model ----
(***************************************************************************)
(* AltaLux (CLAHE) filter: CBaseAltaLuxFilter and its Run strategies.      *)
(*                                                                         *)
(* Numbers                                                                 *)
(*   - float values are IEEE-754 single precision, held as records         *)
(*     [m, e] meaning m * 2^e with m = 0 or 2^23 <= m < 2^24; every        *)
(*     operation rounds to nearest, ties to even, as the hardware does.    *)
(*   - unsigned int values are held in their two's complement signed form  *)
(*     (a value u >= 2^31 is held as u - 2^32), compared with ULt.         *)
(***************************************************************************)
EXTENDS Integers, Sequences, FiniteSets, TLC

(***************************************************************************)
(* Program constants (CBaseAltaLuxFilter.h)                                *)
(***************************************************************************)
AL_OK == 0
AL_NULL_IMAGE == -1
AL_OUT_OF_MEMORY == -11
AL_MIN_STRENGTH == 0
AL_DEFAULT_STRENGTH == 25
AL_MAX_STRENGTH == 100
MAX_HOR_REGIONS == 16
MAX_VERT_REGIONS == 16
DEFAULT_HOR_REGIONS == 8
DEFAULT_VERT_REGIONS == 8
MIN_HOR_REGIONS == 2
MIN_VERT_REGIONS == 2
NUM_GRAY_LEVELS == 256
MAX_GRAY_VALUE == NUM_GRAY_LEVELS - 1
SCALING_LOG == 15

(***************************************************************************)
(* Integer helpers                                                         *)
(***************************************************************************)
Min(a, b) == IF a < b THEN a ELSE b
Max(a, b) == IF a > b THEN a ELSE b

\* 2^n for 0 <= n <= 30
Pow2Table ==
  <<1, 2, 4, 8, 16, 32, 64, 128, 256, 512, 1024, 2048, 4096, 8192, 16384, 32768,
    65536, 131072, 262144, 524288, 1048576, 2097152, 4194304, 8388608, 16777216,
    33554432, 67108864, 134217728, 268435456, 536870912, 1073741824>>
Pow2(n) == IF n <= 0 THEN 1 ELSE Pow2Table[n + 1]

\* number of bits of n >= 0 (0 for n = 0)
BitLen(n) ==
  IF n <= 0 THEN 0
  ELSE IF n >= 1073741824 THEN 31
  ELSE CHOOSE k \in 1..30 : Pow2Table[k] <= n /\ n < Pow2Table[k + 1]

(***************************************************************************)
(* IEEE-754 single precision, non-negative finite values                   *)
(***************************************************************************)
F32Zero == [m |-> 0, e |-> 0]

\* q * 2^e (q < 2^31) plus a fraction below one unit of q that is non-zero
\* iff sticky: rounded to 24 bits, nearest, ties to even
F32Round(q, sticky, e) ==
  IF q = 0 THEN F32Zero
  ELSE LET n == BitLen(q) IN
       IF n <= 24 THEN [m |-> q * Pow2(24 - n), e |-> e - (24 - n)]
       ELSE LET k    == n - 24
                d    == Pow2(k)
                hi   == q \div d
                rem  == q % d
                half == d \div 2
                up   == \/ rem > half
                        \/ rem = half /\ sticky
                        \/ rem = half /\ ~sticky /\ hi % 2 = 1
                r    == IF up THEN hi + 1 ELSE hi
            IN IF r = 16777216 THEN [m |-> 8388608, e |-> e + k + 1]
               ELSE [m |-> r, e |-> e + k]

\* (float) of a non-negative int
F32FromInt(n) == F32Round(n, FALSE, 0)

\* 26 quotient bits of ma / mb by long division: <<quotient, remainder>>
RECURSIVE F32DivBits(_, _, _, _)
F32DivBits(r, mb, q, n) ==
  IF n = 0 THEN <<q, r>>
  ELSE IF r >= mb THEN F32DivBits(2 * (r - mb), mb, 2 * q + 1, n - 1)
       ELSE F32DivBits(2 * r, mb, 2 * q, n - 1)

\* a / b, b # 0
F32Div(a, b) ==
  IF a.m = 0 THEN F32Zero
  ELSE LET qr == F32DivBits(a.m, b.m, 0, 26)
       IN F32Round(qr[1], qr[2] # 0, a.e - b.e - 25)

\* a * b: the 48-bit product is formed from 12-bit halves
F32Mul(a, b) ==
  IF a.m = 0 \/ b.m = 0 THEN F32Zero
  ELSE LET ah    == a.m \div 4096
           al    == a.m % 4096
           bh    == b.m \div 4096
           bl    == b.m % 4096
           cross == ah * bl + al * bh
           losum == al * bl + (cross % 4096) * 4096
           lo    == losum % 16777216
           hi    == ah * bh + cross \div 4096 + losum \div 16777216
           \* product = hi * 2^24 + lo, 2^22 <= hi < 2^24: keep 6 more bits
           q     == hi * 64 + lo \div 262144
       IN F32Round(q, lo % 262144 # 0, a.e + b.e + 18)

\* a + b
F32Add(a, b) ==
  IF a.m = 0 THEN b
  ELSE IF b.m = 0 THEN a
  ELSE LET x == IF a.e >= b.e THEN a ELSE b
           y == IF a.e >= b.e THEN b ELSE a
           d == x.e - y.e
       IN IF d > 26 THEN x
          ELSE LET den == Pow2(d)
               IN IF d <= 3
                  THEN F32Round(x.m * den + y.m, FALSE, y.e)
                  ELSE F32Round(x.m * 8 + (y.m \div (den \div 8)),
                                y.m % (den \div 8) # 0, x.e - 3)

F32Eq(a, b) == a.m = b.m /\ (a.m = 0 \/ a.e = b.e)
F32Lt(a, b) ==
  IF a.m = 0 THEN b.m # 0
  ELSE IF b.m = 0 THEN FALSE
  ELSE a.e < b.e \/ (a.e = b.e /\ a.m < b.m)
F32Le(a, b) == F32Lt(a, b) \/ F32Eq(a, b)

\* (unsigned int) of a float: truncation
F32Trunc(a) ==
  IF a.m = 0 THEN 0
  ELSE IF a.e >= 0 THEN a.m * Pow2(a.e)
  ELSE IF a.e < -24 THEN 0
  ELSE a.m \div Pow2(-a.e)

\* std::lround: nearest, halves away from zero
F32LRound(a) ==
  IF a.m = 0 THEN 0
  ELSE IF a.e >= 0 THEN a.m * Pow2(a.e)
  ELSE IF a.e < -25 THEN 0
  ELSE (a.m + Pow2(-a.e - 1)) \div Pow2(-a.e)


(***************************************************************************)
(* unsigned int arithmetic in two's complement signed form                 *)
(***************************************************************************)
\* a < b as unsigned int
ULt(a, b) == IF (a < 0) = (b < 0) THEN a < b ELSE b < 0
\* a / b as unsigned int, for 0 <= a < 2^31 and b # 0
UDiv(a, b) == IF b < 0 THEN 0 ELSE a \div b

(***************************************************************************)
(* The filter object: a record with the fields of CBaseAltaLuxFilter.      *)
(* ImageBuffer is "null", "alloc" (the filter's own luminance buffer) or    *)
(* "caller" (it points at the caller's image).                             *)
(***************************************************************************)

\* ClipLimit == 1.0 (the pass-through test of every Run)
ClipLimitIsOne(f) == F32Eq(f.ClipLimit, F32FromInt(1))

\* the clip cap without the floor of 1
ulClipLimitUnraised(f) ==
  IF F32Lt(F32Zero, f.ClipLimit)
  THEN F32Trunc(F32Div(F32Mul(f.ClipLimit, F32FromInt(f.RegionWidth * f.RegionHeight)),
                       F32FromInt(NUM_GRAY_LEVELS)))
  ELSE 16384

\* the per-tile clip cap computed at the top of every Run
ulClipLimit(f) ==
  IF F32Lt(F32Zero, f.ClipLimit)
  THEN Max(1, F32Trunc(F32Div(F32Mul(f.ClipLimit,
                                     F32FromInt(f.RegionWidth * f.RegionHeight)),
                              F32FromInt(NUM_GRAY_LEVELS))))
  ELSE 16384

\* offset of the first pixel of tile row / block row uiY
RowOffset(f, uiY) ==
  IF uiY > 0
  THEN ((f.RegionHeight \div 2) + (uiY - 1) * f.RegionHeight) * f.OriginalImageWidth
  ELSE 0

(***************************************************************************)
(* Loops. Fold(Op, s, lo, hi) is the state after the loop body Op(s, i) ran *)
(* for i = lo, lo + 1, ..., hi in this order, starting from s.             *)
(***************************************************************************)
RECURSIVE Fold(_, _, _, _)
Fold(Op(_, _), s, lo, hi) ==
  IF lo > hi THEN s
  ELSE IF lo = hi THEN Op(s, lo)
  ELSE LET mid  == (lo + hi) \div 2
           left == Fold(Op, s, lo, mid)
       \* the test evaluates left before the second half starts
       IN IF <<left>> # <<>> THEN Fold(Op, left, mid + 1, hi) ELSE left

(***************************************************************************)
(* MakeHistogram: 256 bins over RegionWidth x RegionHeight pixels at p     *)
(***************************************************************************)
MakeHistogram(f, buf, p) ==
  LET w == f.RegionWidth
      \* pixel k of the tile, rows OriginalImageWidth apart
      Count(h, k) == [h EXCEPT ![buf[p + (k \div w) * f.OriginalImageWidth + (k % w)]] = @ + 1]
  IN Fold(Count, [g \in 0..(NUM_GRAY_LEVELS - 1) |-> 0],
          0, f.RegionWidth * f.RegionHeight - 1)

(***************************************************************************)
(* ClipHistogram                                                           *)
(***************************************************************************)
\* first loop: total excess over the clip limit
TotalExcess(h, clip) ==
  LET Add(ulNrExcess, i) == IF h[i] - clip > 0 THEN ulNrExcess + (h[i] - clip)
                            ELSE ulNrExcess
  IN Fold(Add, 0, 0, NUM_GRAY_LEVELS - 1)

\* the second loop without its high bin count branch
ClipBinNoUpper(v, clip, ulUpper, ulBinIncr) ==
  IF ULt(clip, v) THEN [v |-> clip, less |-> 0]
  ELSE [v |-> v + ulBinIncr, less |-> ulBinIncr]

\* second loop: what bin i becomes, and what it takes off ulNrExcess
ClipBin(v, clip, ulUpper, ulBinIncr) ==
  IF ULt(clip, v) THEN [v |-> clip, less |-> 0]
  ELSE IF ULt(ulUpper, v) THEN [v |-> clip, less |-> v - ulUpper]
  ELSE [v |-> v + ulBinIncr, less |-> ulBinIncr]

\* the histogram and ulNrExcess after the first two loops
ClipFirstPart(h, clip) ==
  LET ulNrExcess == TotalExcess(h, clip)
      ulBinIncr  == ulNrExcess \div NUM_GRAY_LEVELS
      ulUpper    == clip - ulBinIncr
      Less(ex, i) == ex - ClipBin(h[i], clip, ulUpper, ulBinIncr).less
  IN [h  |-> [i \in 0..(NUM_GRAY_LEVELS - 1) |->
                 ClipBin(h[i], clip, ulUpper, ulBinIncr).v],
      ex |-> Fold(Less, ulNrExcess, 0, NUM_GRAY_LEVELS - 1)]

\* the for loop of the redistribution: bins pos, pos + step, ... while excess
RedistFor(s, clip, pos, step) ==
  LET Visit(t, k) == IF t.ex = 0 THEN t
                     ELSE IF ULt(t.h[pos + k * step], clip)
                          THEN [h |-> [t.h EXCEPT ![pos + k * step] = @ + 1],
                                ex |-> t.ex - 1]
                          ELSE t
  IN Fold(Visit, s, 0, (NUM_GRAY_LEVELS - 1 - pos) \div step)

\* the inner while: one restart position after the other
RedistPass(s, clip) ==
  LET Restart(t, pulHisto) ==
        IF t.ex = 0 THEN t
        ELSE LET ulStepSize == Max(1, UDiv(NUM_GRAY_LEVELS, t.ex))
             IN RedistFor(t, clip, pulHisto, ulStepSize)
  IN Fold(Restart, s, 0, NUM_GRAY_LEVELS - 1)

\* while (ulNrExcess): a pass that increments no bin leaves the loop in the
\* state it started from, so the loop never ends (hang)
RECURSIVE RedistLoop(_, _)
RedistLoop(s, clip) ==
  IF s.ex = 0 THEN [h |-> s.h, ex |-> 0, hang |-> FALSE]
  ELSE LET r == RedistPass(s, clip)
       IN IF r.ex = s.ex THEN [h |-> s.h, ex |-> s.ex, hang |-> TRUE]
          ELSE RedistLoop(r, clip)

ClipHistogram(h, clip) == RedistLoop(ClipFirstPart(h, clip), clip)

(***************************************************************************)
(* MapHistogram                                                            *)
(***************************************************************************)
\* FloatToInt: the std::lround branch (the build does not define __SSE2__)
FloatToInt(x) == F32LRound(x)

\* the entry written for a running sum HistoSum
MapTarget(HistoSum, Scale) ==
  Min(MAX_GRAY_VALUE, FloatToInt(F32Mul(F32FromInt(HistoSum), Scale)))

\* a table of the scaled bins, with no running sum
MapHistogramOfBins(h, NumOfPixels) ==
  LET Scale == F32Div(F32FromInt(MAX_GRAY_VALUE), F32FromInt(NumOfPixels))
  IN [i \in 0..(NUM_GRAY_LEVELS - 1) |-> MapTarget(h[i], Scale)]

\* the running sums after each bin, then the entry of each running sum (one
\* multiplication per distinct sum: the sums lie in 0..total)
MapHistogram(h, NumOfPixels) ==
  LET Scale  == F32Div(F32FromInt(MAX_GRAY_VALUE), F32FromInt(NumOfPixels))
      Sum(s, i) == LET HistoSum == s.HistoSum + h[i]
                   IN [HistoSum |-> HistoSum, at |-> [s.at EXCEPT ![i] = HistoSum]]
      sums   == Fold(Sum, [HistoSum |-> 0, at |-> h], 0, NUM_GRAY_LEVELS - 1)
      target == [t \in 0..sums.HistoSum |-> MapTarget(t, Scale)]
  IN [i \in 0..(NUM_GRAY_LEVELS - 1) |-> target[sums.at[i]]]

(***************************************************************************)
(* Interpolate                                                             *)
(***************************************************************************)
IsPowerOfTwoOrZero(n) == n = 0 \/ Pow2(BitLen(n) - 1) = n

\* the upper left mapping alone, with no interpolation
InterpolatedValueNearest(g, LU, RU, LB, RB, x, y, w, h) == LU[g]

\* the value written at relative position (x, y) of a w x h block
InterpolatedValue(g, LU, RU, LB, RB, x, y, w, h) ==
  LET area == w * h
      sum  == (h - y) * ((w - x) * LU[g] + x * RU[g])
              + y * ((w - x) * LB[g] + x * RB[g])
  IN IF IsPowerOfTwoOrZero(area)
     THEN (sum \div area) % 256
     ELSE ((sum + area \div 2) \div area) % 256

\* the buffer after Interpolate on the w x h block at p
Interpolate(f, buf, p, LU, RU, LB, RB, w, h) ==
  LET stride == f.OriginalImageWidth
      InBlock(i) == /\ i >= p
                    /\ (i - p) % stride < w
                    /\ (i - p) \div stride < h
  IN [i \in DOMAIN buf |->
        IF InBlock(i)
        THEN InterpolatedValue(buf[i], LU, RU, LB, RB,
                               (i - p) % stride, (i - p) \div stride, w, h)
        ELSE buf[i]]

(***************************************************************************)
(* The two halves of the row loop that every Run strategy contains         *)
(***************************************************************************)
\* one tile of phase 1: MakeHistogram, ClipHistogram, MapHistogram
TileMapping(f, buf, uiY, uiX) ==
  LET pHistogram == MakeHistogram(f, buf, RowOffset(f, uiY) + uiX * f.RegionWidth)
      clipped    == ClipHistogram(pHistogram, ulClipLimit(f))
  IN [map  |-> IF clipped.hang THEN <<>>
               ELSE MapHistogram(clipped.h, f.RegionWidth * f.RegionHeight),
      hang |-> clipped.hang]

\* a top block row as high as a whole tile
uiSubYNoHalf(f, uiY) ==
  IF uiY = f.NumVertRegions
  THEN (f.RegionHeight \div 2) + (f.OriginalImageHeight - f.ImageHeight)
  ELSE f.RegionHeight

\* size and neighbour tiles of block row uiY
uiSubY(f, uiY) ==
  IF uiY = 0 THEN f.RegionHeight \div 2
  ELSE IF uiY = f.NumVertRegions
       THEN (f.RegionHeight \div 2) + (f.OriginalImageHeight - f.ImageHeight)
       ELSE f.RegionHeight
uiYU(f, uiY) ==
  IF uiY = 0 THEN 0
  ELSE IF uiY = f.NumVertRegions THEN f.NumVertRegions - 1 ELSE uiY - 1
\* a bottom block row whose lower tiles are those of tile row 0
uiYBWrapped(f, uiY) == uiY % f.NumVertRegions

uiYB(f, uiY) ==
  IF uiY = 0 THEN 0
  ELSE IF uiY = f.NumVertRegions THEN f.NumVertRegions - 1 ELSE uiY

\* size and neighbour tiles of block column uiX
uiSubX(f, uiX) ==
  IF uiX = 0 THEN f.RegionWidth \div 2
  ELSE IF uiX = f.NumHorRegions
       THEN (f.RegionWidth \div 2) + (f.OriginalImageWidth - f.ImageWidth)
       ELSE f.RegionWidth
uiXL(f, uiX) ==
  IF uiX = 0 THEN 0
  ELSE IF uiX = f.NumHorRegions THEN f.NumHorRegions - 1 ELSE uiX - 1
uiXR(f, uiX) ==
  IF uiX = 0 THEN 0
  ELSE IF uiX = f.NumHorRegions THEN f.NumHorRegions - 1 ELSE uiX

\* pImPointer when block uiX of a row starts: the widths of the blocks before
RECURSIVE ColOffset(_, _)
ColOffset(f, uiX) == IF uiX = 0 THEN 0 ELSE ColOffset(f, uiX - 1) + uiSubX(f, uiX - 1)

TileIndex(f, y, x) == y * f.NumHorRegions + x

\* one block of phase 2: the buffer after Interpolate with its four mappings
InterpolateBlock(f, buf, pulMapArray, uiY, uiX) ==
  Interpolate(f, buf, RowOffset(f, uiY) + ColOffset(f, uiX),
              pulMapArray[TileIndex(f, uiYU(f, uiY), uiXL(f, uiX))],
              pulMapArray[TileIndex(f, uiYU(f, uiY), uiXR(f, uiX))],
              pulMapArray[TileIndex(f, uiYB(f, uiY), uiXL(f, uiX))],
              pulMapArray[TileIndex(f, uiYB(f, uiY), uiXR(f, uiX))],
              uiSubX(f, uiX), uiSubY(f, uiY))

(***************************************************************************)
(* CSerialAltaLuxFilter::Run as a function of the buffer: a record         *)
(* [ret, buf, hang, thrown]; hang when a ClipHistogram call never returns, *)
(* thrown when operator new[] throws std::bad_alloc.                       *)
(***************************************************************************)
RECURSIVE SerialTiles(_, _, _, _, _)
SerialTiles(f, buf, maps, uiY, uiX) ==
  IF uiX = f.NumHorRegions THEN [maps |-> maps, hang |-> FALSE]
  ELSE LET t == TileMapping(f, buf, uiY, uiX)
       IN IF t.hang THEN [maps |-> maps, hang |-> TRUE]
          ELSE SerialTiles(f, buf, [maps EXCEPT ![TileIndex(f, uiY, uiX)] = t.map],
                           uiY, uiX + 1)

RECURSIVE SerialBlocks(_, _, _, _, _)
SerialBlocks(f, buf, maps, uiY, uiX) ==
  IF uiX > f.NumHorRegions THEN buf
  ELSE SerialBlocks(f, InterpolateBlock(f, buf, maps, uiY, uiX), maps, uiY, uiX + 1)

RECURSIVE SerialRows(_, _, _, _)
SerialRows(f, buf, maps, uiY) ==
  IF uiY > f.NumVertRegions
  THEN [ret |-> AL_OK, buf |-> buf, hang |-> FALSE, thrown |-> FALSE]
  ELSE LET first == IF uiY < f.NumVertRegions
                    THEN SerialTiles(f, buf, maps, uiY, 0)
                    ELSE [maps |-> maps, hang |-> FALSE]
       IN IF first.hang
          THEN [ret |-> AL_OK, buf |-> buf, hang |-> TRUE, thrown |-> FALSE]
          ELSE SerialRows(f, SerialBlocks(f, buf, first.maps, uiY, 0),
                          first.maps, uiY + 1)

NoMappings(f) == [t \in 0..(f.NumHorRegions * f.NumVertRegions - 1) |-> <<>>]

\* mapOk: whether the allocation of pulMapArray succeeds. new[] reports a
\* failure by throwing, so the AL_OUT_OF_MEMORY return behind it is never taken
SerialRun(f, buf, mapOk) ==
  IF ClipLimitIsOne(f)
  THEN [ret |-> AL_OK, buf |-> buf, hang |-> FALSE, thrown |-> FALSE]
  ELSE IF ~mapOk
  THEN [ret |-> AL_OK, buf |-> buf, hang |-> FALSE, thrown |-> TRUE]
  ELSE SerialRows(f, buf, NoMappings(f), 0)

(***************************************************************************)
(* Construction and configuration                                          *)
(***************************************************************************)
INT_MAX == (Pow2(30) - 1) + Pow2(30)

\* a + b in int, b >= 0. Signed overflow is undefined; x86 builds wrap
IntAddWraps(a, b) == a > INT_MAX - b
IntAdd(a, b) == IF IntAddWraps(a, b) THEN ((a - INT_MAX) + b - 2) - INT_MAX ELSE a + b

\* a ClipLimit that does not follow the strength
ClipLimitOfFlat(Strength) == F32FromInt(1)

ClipLimitOf(Strength) ==
  LET MIN_CLIP_LIMIT == F32FromInt(1)
      MAX_CLIP_LIMIT == F32FromInt(5)
      raw == F32Add(MIN_CLIP_LIMIT,
                    F32Div(F32Mul(F32FromInt(4), F32FromInt(Strength - AL_MIN_STRENGTH)),
                           F32FromInt(AL_MAX_STRENGTH - AL_MIN_STRENGTH)))
  IN IF F32Lt(raw, MIN_CLIP_LIMIT) THEN MIN_CLIP_LIMIT
     ELSE IF F32Lt(MAX_CLIP_LIMIT, raw) THEN MAX_CLIP_LIMIT
     ELSE raw

\* SetStrength(_Strength). sum is the value of _Strength + 4: IntAdd, or any
\* outcome of the undefined overflow; allocOk: whether _aligned_malloc succeeds
SetStrengthWith(f, sum, allocOk) ==
  LET Strength == IF sum < AL_MIN_STRENGTH THEN AL_MIN_STRENGTH
                  ELSE IF sum > AL_MAX_STRENGTH THEN AL_MAX_STRENGTH
                  ELSE sum
      ImageBuffer == IF Strength = AL_MIN_STRENGTH THEN "null"
                     ELSE IF f.ImageBuffer = "null"
                          THEN (IF allocOk THEN "alloc" ELSE "null")
                          ELSE f.ImageBuffer
  IN [f EXCEPT !.Strength = Strength,
               !.ImageBuffer = ImageBuffer,
               !.ClipLimit = ClipLimitOf(Strength)]

SetStrengthOp(f, _Strength, allocOk) == SetStrengthWith(f, IntAdd(_Strength, 4), allocOk)

\* the constructor, HorSlices > 0 and VerSlices > 0: it stores the tile counts
\* as given and ends with SetStrength()
Construct(Width, Height, HorSlices, VerSlices, allocOk) ==
  LET RegionWidth  == Width \div HorSlices
      RegionHeight == Height \div VerSlices
  IN SetStrengthOp([OriginalImageWidth  |-> Width,
                    OriginalImageHeight |-> Height,
                    ImageBuffer    |-> "null",
                    NumHorRegions  |-> HorSlices,
                    NumVertRegions |-> VerSlices,
                    RegionWidth    |-> RegionWidth,
                    RegionHeight   |-> RegionHeight,
                    ImageWidth     |-> RegionWidth * HorSlices,
                    ImageHeight    |-> RegionHeight * VerSlices,
                    Strength       |-> 0,
                    ClipLimit      |-> F32Zero],
                   AL_DEFAULT_STRENGTH, allocOk)

Clamp(v, lo, hi) == IF v < lo THEN lo ELSE IF v > hi THEN hi ELSE v

\* a SetSlices that stores the tile counts and tile sizes but leaves the
\* tiled width and height as they were
SetSlicesOpStaleSize(f, HorSlices, VerSlices) ==
  LET h == Clamp(HorSlices, MIN_HOR_REGIONS, MAX_HOR_REGIONS)
      v == Clamp(VerSlices, MIN_VERT_REGIONS, MAX_VERT_REGIONS)
  IN [f EXCEPT !.NumHorRegions = h,
               !.NumVertRegions = v,
               !.RegionWidth = f.OriginalImageWidth \div h,
               !.RegionHeight = f.OriginalImageHeight \div v]

SetSlicesOp(f, HorSlices, VerSlices) ==
  LET h == Clamp(HorSlices, MIN_HOR_REGIONS, MAX_HOR_REGIONS)
      v == Clamp(VerSlices, MIN_VERT_REGIONS, MAX_VERT_REGIONS)
      RegionWidth  == f.OriginalImageWidth \div h
      RegionHeight == f.OriginalImageHeight \div v
  IN [f EXCEPT !.NumHorRegions = h,
               !.NumVertRegions = v,
               !.RegionWidth = RegionWidth,
               !.RegionHeight = RegionHeight,
               !.ImageWidth = RegionWidth * h,
               !.ImageHeight = RegionHeight * v]

\* enabled only above the offset SetStrength adds to its argument
IsEnabledAboveOffset(f) == f.Strength > AL_MIN_STRENGTH + 4

IsEnabled(f) == f.Strength # AL_MIN_STRENGTH

(***************************************************************************)
(* State.                                                                  *)
(*   filter  the filter object                                             *)
(*   win64   whether the build defines _WIN64                              *)
(*   call    the last call made on the filter and what came of it          *)
(*   image   the caller's pixel data (empty where only the sizes matter)   *)
(*   run     the position of a Run that is in progress                     *)
(*   clip    the position of a ClipHistogram call that is in progress      *)
(***************************************************************************)
VARIABLES filter, win64, call, image, run, clip
vars == <<filter, win64, call, image, run, clip>>

Idle == [pc |-> "idle"]

(***************************************************************************)
(* Spec: the life of one filter object, by sizes and configuration. A Run  *)
(* is followed up to the point where it enters its row loops.              *)
(***************************************************************************)
\* what Run does before its row loops: "passthrough" (ClipLimit == 1.0),
\* "allocFailed" (the allocation of the mapping array fails, which new[] and
\* std::make_unique report by throwing std::bad_alloc), "rows" otherwise
RunEntry(f, mapOk) ==
  IF ClipLimitIsOne(f) THEN "passthrough"
  ELSE IF ~mapOk THEN "allocFailed"
  ELSE "rows"

\* the lazy allocation at the top of ProcessGeneric / ProcessUYVY / ProcessYUYV
LazyAlloc(f, allocOk) ==
  IF f.ImageBuffer = "null" /\ allocOk THEN [f EXCEPT !.ImageBuffer = "alloc"] ELSE f

\* the outcome of a ProcessXxx call: the filter afterwards, the status
\* returned (<<>> when an exception leaves the call), how far Run went,
\* and whether the call wrote into the caller's image
Outcome(f, ret, entry, written) ==
  [filter |-> f, ret |-> ret, run |-> entry, written |-> written]
Returns(status) == <<status>>
Throws == <<>>

ProcessGrayOp(f, Image, mapOk) ==
  IF Image = "null" THEN Outcome(f, Returns(AL_NULL_IMAGE), "none", FALSE)
  ELSE LET entry == RunEntry(f, mapOk)
       IN IF entry = "allocFailed"
          \* the exception skips the restore of ImageBuffer
          THEN Outcome([f EXCEPT !.ImageBuffer = "caller"], Throws, entry, FALSE)
          ELSE Outcome(f, Returns(AL_OK), entry, entry = "rows")

ProcessGeneric(f, Image, allocOk, mapOk) ==
  IF Image = "null" THEN Outcome(f, Returns(AL_NULL_IMAGE), "none", FALSE)
  ELSE LET g == LazyAlloc(f, allocOk)
           entry == RunEntry(g, mapOk)
       IN IF g.ImageBuffer = "null" THEN Outcome(g, Returns(AL_OUT_OF_MEMORY), "none", FALSE)
          ELSE IF entry = "allocFailed" THEN Outcome(g, Throws, entry, FALSE)
          \* InjectYComponent writes the image after every Run that returns
          ELSE Outcome(g, Returns(AL_OK), entry, TRUE)

ProcessUYVYOp(f, w64, Image, allocOk, mapOk) ==
  IF w64 THEN Outcome(f, Returns(AL_OK), "none", FALSE)
  ELSE IF Image = "null" THEN Outcome(f, Returns(AL_NULL_IMAGE), "none", FALSE)
  ELSE IF ~IsEnabled(f) THEN Outcome(f, Returns(AL_OK), "none", FALSE)
  ELSE LET g == LazyAlloc(f, allocOk)
           entry == RunEntry(g, mapOk)
       IN IF g.ImageBuffer = "null" THEN Outcome(g, Returns(AL_OUT_OF_MEMORY), "none", FALSE)
          ELSE IF entry = "allocFailed" THEN Outcome(g, Throws, entry, FALSE)
          ELSE Outcome(g, Returns(AL_OK), entry, TRUE)

ProcessYUYVOp(f, w64, Image, allocOk, mapOk) ==
  IF w64 THEN Outcome(f, Returns(AL_OK), "none", FALSE)
  ELSE IF Image = "null" THEN Outcome(f, Returns(AL_NULL_IMAGE), "none", FALSE)
  ELSE LET g == LazyAlloc(f, allocOk)
           entry == RunEntry(g, mapOk)
       IN IF g.ImageBuffer = "null" THEN Outcome(g, Returns(AL_OUT_OF_MEMORY), "none", FALSE)
          ELSE IF entry = "allocFailed" THEN Outcome(g, Throws, entry, FALSE)
          ELSE Outcome(g, Returns(AL_OK), entry, TRUE)

\* the sizes, tile counts and arguments the calls are made with
Dims == {<<1024, 768>>}
CtorSlices == {1, DEFAULT_HOR_REGIONS, 17}
SliceArgs == {<<1, 17>>, <<3, 3>>, <<17, 1>>}
StrengthArgs == {-5, -3, 0, 97, INT_MAX - 3}
Images == {"null", "pixels"}
GenericOps == {"ProcessRGB24", "ProcessRGB32", "ProcessBGR24", "ProcessBGR32"}
UYVYOps == {"ProcessUYVY", "ProcessVYUY"}
YUYVOps == {"ProcessYUYV", "ProcessYVYU"}
ProcessOps == {"ProcessGray"} \cup GenericOps \cup UYVYOps \cup YUYVOps

\* the value _Strength + 4 takes: the sum, or on overflow what a build can
\* make of it (the wrapped sum, or a sum that stayed above every bound)
StrengthSums(_Strength) ==
  IF IntAddWraps(_Strength, 4) THEN {IntAdd(_Strength, 4), INT_MAX}
  ELSE {_Strength + 4}

\* the record of a call: changed tells whether the call changed the filter;
\* strengthArg is the argument of the latest SetStrength, and for a
\* SetStrength call prevStrengthArg and prevClipLimit are the argument of the
\* one before it and the ClipLimit that one left
Called(op, arg, img, out, changed, sArg, pArg, pClip) ==
  [op |-> op, arg |-> arg, image |-> img, ret |-> out.ret, run |-> out.run,
   written |-> out.written, changed |-> changed, strengthArg |-> sArg,
   prevStrengthArg |-> pArg, prevClipLimit |-> pClip]

\* construction, SetStrength and SetSlices return nothing
NoOutcome == [ret |-> <<>>, run |-> "none", written |-> FALSE]

\* an exception that left a call is followed by the destruction of the
\* object only, and nothing follows the destruction
Live == call.run # "allocFailed" /\ call.op # "destroy"

Init ==
  \E d \in Dims, s \in CtorSlices, allocOk \in BOOLEAN, w64 \in BOOLEAN :
    /\ filter = Construct(d[1], d[2], s, s, allocOk)
    /\ win64 = w64
    /\ call = Called("construct", <<s, s>>, "none", NoOutcome, TRUE,
                     AL_DEFAULT_STRENGTH, AL_DEFAULT_STRENGTH, filter.ClipLimit)
    /\ image = <<>>
    /\ run = Idle
    /\ clip = Idle

SetStrength ==
  \E _Strength \in StrengthArgs, allocOk \in BOOLEAN :
    \E sum \in StrengthSums(_Strength) :
      /\ Live
      /\ filter' = SetStrengthWith(filter, sum, allocOk)
      /\ call' = Called("SetStrength", _Strength, "none", NoOutcome, filter' # filter,
                        _Strength, call.strengthArg, filter.ClipLimit)
      /\ UNCHANGED <<win64, image, run, clip>>

SetSlices ==
  \E arg \in SliceArgs :
    /\ Live
    /\ filter' = SetSlicesOp(filter, arg[1], arg[2])
    /\ call' = Called("SetSlices", arg, "none", NoOutcome, filter' # filter,
                      call.strengthArg, call.strengthArg, filter.ClipLimit)
    /\ UNCHANGED <<win64, image, run, clip>>

Processed(op, Image, out) ==
  /\ filter' = out.filter
  /\ call' = Called(op, "none", Image, out, out.filter # filter,
                    call.strengthArg, call.strengthArg, filter.ClipLimit)
  /\ UNCHANGED <<win64, image, run, clip>>

ProcessGray ==
  \E Image \in Images, mapOk \in BOOLEAN :
    /\ Live
    /\ Processed("ProcessGray", Image, ProcessGrayOp(filter, Image, mapOk))

ProcessRGB ==
  \E op \in GenericOps, Image \in Images, allocOk \in BOOLEAN, mapOk \in BOOLEAN :
    /\ Live
    /\ Processed(op, Image, ProcessGeneric(filter, Image, allocOk, mapOk))

ProcessUYVY ==
  \E op \in UYVYOps, Image \in Images, allocOk \in BOOLEAN, mapOk \in BOOLEAN :
    /\ Live
    /\ Processed(op, Image, ProcessUYVYOp(filter, win64, Image, allocOk, mapOk))

ProcessYUYV ==
  \E op \in YUYVOps, Image \in Images, allocOk \in BOOLEAN, mapOk \in BOOLEAN :
    /\ Live
    /\ Processed(op, Image, ProcessYUYVOp(filter, win64, Image, allocOk, mapOk))

\* ~CBaseAltaLuxFilter: a non-null ImageBuffer is handed to _aligned_free;
\* call.arg is what ImageBuffer pointed at
Destroy ==
  /\ call.op # "destroy"
  /\ call' = Called("destroy", filter.ImageBuffer, "none", NoOutcome, FALSE,
                    call.strengthArg, call.strengthArg, filter.ClipLimit)
  /\ UNCHANGED <<filter, win64, image, run, clip>>

Next ==
  \/ SetStrength
  \/ SetSlices
  \/ ProcessGray
  \/ ProcessRGB
  \/ ProcessUYVY
  \/ ProcessYUYV
  \/ Destroy

Spec == Init /\ [][Next]_vars

(***************************************************************************)
(* Luminance extraction and injection for the colour formats               *)
(***************************************************************************)
SCALING_FACTOR == Pow2(SCALING_LOG)
\* static_cast<int>(0.299 * SCALING_FACTOR) and the like
Y_RED_SCALE   == (299 * SCALING_FACTOR) \div 1000
Y_GREEN_SCALE == (587 * SCALING_FACTOR) \div 1000
Y_BLUE_SCALE  == (114 * SCALING_FACTOR) \div 1000

\* the arguments ProcessRGB24/32 and ProcessBGR24/32 hand to ProcessGeneric
Factors(op) ==
  IF op = "ProcessRGB24" THEN <<Y_RED_SCALE, Y_GREEN_SCALE, Y_BLUE_SCALE, 3>>
  ELSE IF op = "ProcessRGB32" THEN <<Y_RED_SCALE, Y_GREEN_SCALE, Y_BLUE_SCALE, 4>>
  ELSE IF op = "ProcessBGR24" THEN <<Y_BLUE_SCALE, Y_GREEN_SCALE, Y_RED_SCALE, 3>>
  ELSE <<Y_BLUE_SCALE, Y_GREEN_SCALE, Y_RED_SCALE, 4>>

\* the luminance of the pixel whose first byte is Image[at]
YValue(Image, at, k) ==
  Min((Image[at] * k[1] + Image[at + 1] * k[2] + Image[at + 2] * k[3]
       + Pow2(SCALING_LOG - 1)) \div SCALING_FACTOR, 255)

\* ExtractYComponent: the contents of ImageBuffer (the vector and the scalar
\* loops compute the same value for every pixel), k = Factors(op)
ExtractYComponent(f, Image, k) ==
  [i \in 0..(f.OriginalImageWidth * f.OriginalImageHeight - 1) |->
     YValue(Image, i * k[4], k)]

\* scaleLUT[oldY][newY], oldY > 0
scaleLUT(oldY, newY) == (newY * 256) \div oldY

\* an injection that writes the new luminance over every byte of the pixel
InjectYComponentAllBytes(f, Image, ImageBuffer, k) ==
  [j \in DOMAIN Image |-> ImageBuffer[j \div k[4]]]

\* InjectYComponent: the image afterwards
InjectYComponent(f, Image, ImageBuffer, k) ==
  [j \in DOMAIN Image |->
     LET i == j \div k[4]
         OldYValue == YValue(Image, i * k[4], k)
         NewYValue == ImageBuffer[i]
     IN IF j % k[4] > 2 THEN Image[j]
        ELSE IF OldYValue = 0 THEN NewYValue
        ELSE Min((Image[j] * scaleLUT(OldYValue, NewYValue)) \div 256, 255)]

(***************************************************************************)
(* SpecPixel: ExtractYComponent followed by InjectYComponent on a 2 x 2    *)
(* colour image, with no Run between the two.                              *)
(***************************************************************************)
ChannelValues == {0, 1, 4, 128, 255}

\* four pixels made of the channel values a, b, c; a fourth byte, where the
\* format has one, is 255
PixelImage(a, b, c, PixelOffset) ==
  LET px == <<<<a, b, c>>, <<c, a, b>>, <<b, c, a>>, <<a, a, a>>>>
  IN [j \in 0..(4 * PixelOffset - 1) |->
        IF j % PixelOffset > 2 THEN 255 ELSE px[(j \div PixelOffset) + 1][(j % PixelOffset) + 1]]

InitPixel ==
  \E op \in GenericOps, a \in ChannelValues, b \in ChannelValues, c \in ChannelValues :
    /\ filter = Construct(2, 2, MIN_HOR_REGIONS, MIN_VERT_REGIONS, TRUE)
    /\ win64 = FALSE
    /\ image = PixelImage(a, b, c, Factors(op)[4])
    /\ call = [op |-> op, input |-> image]
    /\ run = [pc |-> "extract", buf |-> <<>>]
    /\ clip = Idle

PixelExtract ==
  /\ run.pc = "extract"
  /\ run' = [pc |-> "inject", buf |-> ExtractYComponent(filter, image, Factors(call.op))]
  /\ UNCHANGED <<filter, win64, call, image, clip>>

PixelInject ==
  /\ run.pc = "inject"
  /\ image' = InjectYComponent(filter, image, run.buf, Factors(call.op))
  /\ run' = [run EXCEPT !.pc = "done"]
  /\ UNCHANGED <<filter, win64, call, clip>>

NextPixel ==
  \/ PixelExtract
  \/ PixelInject

SpecPixel == InitPixel /\ [][NextPixel]_vars

Abs(x) == IF x < 0 THEN -x ELSE x

\* C10: after Extract and then Inject with the working buffer as Extract
\* left it, every colour channel of every pixel is within 1 of the original
C10_ExtractInjectWithinOne ==
  run.pc = "done" =>
    \A j \in DOMAIN image : Abs(image[j] - call.input[j]) <= 1

(***************************************************************************)
(* Test images: pattern 0 is uniform, the patterns 1..NumPatterns are not   *)
(***************************************************************************)
NumPatterns == 2
Pixel(k, i) == (128 + k * (37 * i + i * i)) % NUM_GRAY_LEVELS
GrayImage(Width, Height, k) == [i \in 0..(Width * Height - 1) |-> Pixel(k, i)]
\* the uniform image but for its first two pixels, which are one level darker
SpeckledImage(Width, Height) ==
  [i \in 0..(Width * Height - 1) |-> IF i < 2 THEN Pixel(0, i) - 1 ELSE Pixel(0, i)]

(***************************************************************************)
(* SpecClip: one ClipHistogram call of a Run, on the histogram of one tile *)
(* of an image, for a filter configured through the constructor, SetSlices *)
(* and SetStrength. A step is the part before the redistribution, one      *)
(* pass of the outer while loop, or the return. A pass that changes        *)
(* neither the histogram nor ulNrExcess is followed by the same pass again *)
(* and again: the call is then at "forever". The MapHistogram call that    *)
(* follows a returned ClipHistogram in Run is the last step.               *)
(***************************************************************************)
ClipDims == {<<40, 30>>, <<16, 16>>}
ClipSlices == {2, 4}
ClipStrengths == {-3, 0, AL_DEFAULT_STRENGTH, 35, AL_MAX_STRENGTH}

InitClip ==
  \E d \in ClipDims, n \in ClipSlices, _Strength \in ClipStrengths :
    \E uiY \in 0..(n - 1), uiX \in 0..(n - 1) :
      /\ filter = SetStrengthOp(SetSlicesOp(Construct(d[1], d[2], DEFAULT_HOR_REGIONS,
                                                      DEFAULT_VERT_REGIONS, TRUE), n, n),
                                _Strength, TRUE)
      /\ ~ClipLimitIsOne(filter)
      /\ win64 = FALSE
      /\ image \in {GrayImage(d[1], d[2], k) : k \in 0..NumPatterns}
                       \cup {SpeckledImage(d[1], d[2])}
      /\ call = [op |-> "ClipHistogram", uiY |-> uiY, uiX |-> uiX]
      /\ run = Idle
      /\ LET pHistogram == MakeHistogram(filter, image,
                                         RowOffset(filter, uiY) + uiX * filter.RegionWidth)
         IN clip = [pc |-> "clip", h |-> pHistogram, entered |-> pHistogram,
                    ex |-> 0, ClipLimit |-> ulClipLimit(filter)]

\* the two for loops
ClipFirst ==
  /\ clip.pc = "clip"
  /\ LET s == ClipFirstPart(clip.h, clip.ClipLimit)
     IN clip' = [clip EXCEPT !.pc = "while", !.h = s.h, !.ex = s.ex]
  /\ UNCHANGED <<filter, win64, call, image, run>>

\* one pass of while (ulNrExcess)
ClipRedistribute ==
  /\ clip.pc = "while"
  /\ clip.ex # 0
  /\ LET before == [h |-> clip.h, ex |-> clip.ex]
         s == RedistPass(before, clip.ClipLimit)
     IN clip' = [clip EXCEPT !.pc = IF s = before THEN "forever" ELSE "while",
                             !.h = s.h, !.ex = s.ex]
  /\ UNCHANGED <<filter, win64, call, image, run>>

ClipReturn ==
  /\ clip.pc = "while"
  /\ clip.ex = 0
  /\ clip' = [clip EXCEPT !.pc = "done"]
  /\ UNCHANGED <<filter, win64, call, image, run>>

\* MapHistogram(pHistogram, NumPixels) on the clipped histogram
ClipMap ==
  /\ clip.pc = "done"
  /\ clip' = [clip EXCEPT !.pc = "mapped",
                          !.h = MapHistogram(clip.h, filter.RegionWidth * filter.RegionHeight)]
  /\ UNCHANGED <<filter, win64, call, image, run>>

NextClip ==
  \/ ClipFirst
  \/ ClipRedistribute
  \/ ClipReturn
  \/ ClipMap

SpecClip == InitClip /\ [][NextClip]_vars

\* C7: every ClipHistogram call made by Run on an enabled configuration
\* terminates with no excess left: no call comes to repeat its while loop
\* forever, and a call that is done has ulNrExcess = 0
C7_ClipHistogramReturns ==
  /\ clip.pc # "forever"
  /\ clip.pc = "done" => clip.ex = 0

(***************************************************************************)
(* SpecRun: one ProcessGray or ProcessRGB32 call, with the Run of one of   *)
(* the four strategies inside it. A step of a Run is one tile of phase 1   *)
(* (MakeHistogram, ClipHistogram, MapHistogram and, in the active-wait     *)
(* strategy, the publication of the column) or one block of phase 2        *)
(* (Interpolate); the row tasks of a parallel_for interleave their steps.  *)
(*   run.buf    the contents of the filter's own ImageBuffer               *)
(*   run.start  the buffer Run was entered with                            *)
(*   run.maps   pulMapArray, one mapping per tile                          *)
(*   run.tiles, run.blocks   per row uiY, how many tiles / blocks are done *)
(***************************************************************************)
Strategies == {"serial", "splitLoop", "event", "activeWait"}

\* the configurations and calls: sizes, tile counts (given to SetSlices or
\* to the constructor) and SetStrength arguments
RunCases ==
  {[Width |-> 5, Height |-> 4, HorSlices |-> 2, VerSlices |-> 2,
    Strength |-> AL_DEFAULT_STRENGTH, op |-> "ProcessGray", by |-> "SetSlices", strategies |-> Strategies],
   [Width |-> 6, Height |-> 4, HorSlices |-> 3, VerSlices |-> 2,
    Strength |-> AL_DEFAULT_STRENGTH, op |-> "ProcessGray",
    by |-> "SetSlices", strategies |-> {"event", "activeWait"}],
   [Width |-> 32, Height |-> 16, HorSlices |-> 2, VerSlices |-> 2,
    Strength |-> 96, op |-> "ProcessGray", by |-> "SetSlices", strategies |-> {"serial", "splitLoop"}],
   [Width |-> 16, Height |-> 16, HorSlices |-> DEFAULT_HOR_REGIONS,
    VerSlices |-> DEFAULT_VERT_REGIONS, Strength |-> AL_DEFAULT_STRENGTH,
    op |-> "ProcessRGB32", by |-> "SetSlices", strategies |-> {"serial"}],
   [Width |-> 5, Height |-> 4, HorSlices |-> 2, VerSlices |-> 2,
    Strength |-> AL_DEFAULT_STRENGTH, op |-> "ProcessBGR32", by |-> "SetSlices", strategies |-> {"serial"}],
   [Width |-> 40, Height |-> 30, HorSlices |-> 2, VerSlices |-> 2,
    Strength |-> 0, op |-> "ProcessGray", by |-> "SetSlices", strategies |-> {"activeWait"}],
   [Width |-> 6, Height |-> 6, HorSlices |-> 2, VerSlices |-> 2,
    Strength |-> AL_DEFAULT_STRENGTH, op |-> "ProcessGray", by |-> "SetSlices",
    strategies |-> {"serial"}],
   [Width |-> 12, Height |-> 4, HorSlices |-> 2, VerSlices |-> 2,
    Strength |-> AL_DEFAULT_STRENGTH, op |-> "ProcessGray", by |-> "SetSlices",
    strategies |-> {"serial"}],
   [Width |-> 2, Height |-> 17, HorSlices |-> 2, VerSlices |-> 17,
    Strength |-> AL_DEFAULT_STRENGTH, op |-> "ProcessGray", by |-> "constructor",
    strategies |-> {"activeWait"}]}

\* a colour image of the given format made from pattern k; a fourth byte,
\* where the format has one, varies from pixel to pixel
ColourImage(Width, Height, k, PixelOffset) ==
  [j \in 0..(Width * Height * PixelOffset - 1) |->
     IF j % PixelOffset > 2 THEN (255 - 3 * j) % NUM_GRAY_LEVELS
     ELSE Pixel(k, (j \div PixelOffset) + (j % PixelOffset))]

\* std::make_unique<unsigned int[]> zeroes the array; new unsigned int[]
\* leaves it indeterminate (NoMappings)
ZeroMappings(f) ==
  [t \in 0..(f.NumHorRegions * f.NumVertRegions - 1) |->
     [g \in 0..(NUM_GRAY_LEVELS - 1) |-> 0]]

InitRun ==
  \E c \in RunCases, k \in 1..NumPatterns :
    \E strategy \in c.strategies :
      /\ filter = SetStrengthOp(IF c.by = "constructor"
                                THEN Construct(c.Width, c.Height, c.HorSlices, c.VerSlices, TRUE)
                                ELSE SetSlicesOp(Construct(c.Width, c.Height, DEFAULT_HOR_REGIONS,
                                                           DEFAULT_VERT_REGIONS, TRUE),
                                                 c.HorSlices, c.VerSlices),
                                c.Strength, TRUE)
      /\ win64 = FALSE
      /\ image = IF c.op = "ProcessGray" THEN GrayImage(c.Width, c.Height, k)
                 ELSE ColourImage(c.Width, c.Height, k, Factors(c.op)[4])
      /\ call = [op |-> c.op, strategy |-> strategy, input |-> image]
      /\ run = [pc |-> "called", buf |-> <<>>, start |-> <<>>, maps |-> <<>>,
                tiles |-> <<>>, blocks |-> <<>>, FirstPhaseCompleted |-> <<>>,
                SavedImageBuffer |-> "null"]
      /\ clip = Idle

\* the memory ImageBuffer points at: the caller's image during ProcessGray
Buffer == IF call.op = "ProcessGray" THEN image ELSE run.buf

\* ProcessGray up to Run(): ImageBuffer is pointed at the image.
\* ProcessGeneric up to Run(): ExtractYComponent
ProcessBegin ==
  /\ run.pc = "called"
  /\ IF call.op = "ProcessGray"
     THEN /\ filter' = [filter EXCEPT !.ImageBuffer = "caller"]
          /\ run' = [run EXCEPT !.pc = "run", !.SavedImageBuffer = filter.ImageBuffer]
     ELSE /\ run' = [run EXCEPT !.pc = "run",
                                !.buf = ExtractYComponent(filter, image, Factors(call.op))]
          /\ UNCHANGED filter
  /\ UNCHANGED <<win64, call, image, clip>>

Rows == 0..filter.NumVertRegions

\* the rows that have an element in FirstPhaseCompleted[MAX_VERT_REGIONS + 1]
MarkedRows == {uiY \in Rows : uiY <= MAX_VERT_REGIONS}

\* the active-wait Run sets FirstPhaseCompleted[0..NumVertRegions] to -1: with
\* more than MAX_VERT_REGIONS tile rows the loop writes behind the array
MarkersOverrun == call.strategy = "activeWait" /\ filter.NumVertRegions > MAX_VERT_REGIONS

\* Run up to its row loops. After a write behind FirstPhaseCompleted the
\* behaviour is undefined; the Run is then at "overrun" and is not followed
\* further
RunBegin ==
  \E mapOk \in BOOLEAN :
    /\ run.pc = "run"
    /\ LET entry == RunEntry(filter, mapOk)
       IN run' = [run EXCEPT
                    !.pc = IF entry = "rows"
                           THEN (IF MarkersOverrun THEN "overrun" ELSE "rows")
                           ELSE IF entry = "passthrough" THEN "returned"
                           ELSE "bad_alloc",
                    !.start = Buffer,
                    !.maps = IF call.strategy = "serial" THEN NoMappings(filter)
                             ELSE ZeroMappings(filter),
                    !.tiles = [uiY \in Rows |-> 0],
                    !.blocks = [uiY \in Rows |-> 0],
                    !.FirstPhaseCompleted = [uiY \in MarkedRows |-> -1]]
    /\ UNCHANGED <<filter, win64, call, image, clip>>

TilesLeft(uiY) == uiY < filter.NumVertRegions /\ run.tiles[uiY] < filter.NumHorRegions
TilesDone(uiY) == uiY >= filter.NumVertRegions \/ run.tiles[uiY] = filter.NumHorRegions
BlocksLeft(uiY) == run.blocks[uiY] <= filter.NumHorRegions
RowDone(uiY) == TilesDone(uiY) /\ ~BlocksLeft(uiY)

\* the next tile of row uiY
Tile(uiY) ==
  LET uiX == run.tiles[uiY]
      t   == TileMapping(filter, Buffer, uiY, uiX)
  IN /\ run' = IF t.hang THEN [run EXCEPT !.pc = "forever"]
               ELSE [run EXCEPT !.maps[TileIndex(filter, uiY, uiX)] = t.map,
                                !.tiles[uiY] = uiX + 1,
                                !.FirstPhaseCompleted[uiY] =
                                   IF call.strategy = "activeWait" THEN uiX ELSE @]
     /\ UNCHANGED <<filter, win64, call, image, clip>>

\* the next block of row uiY
Block(uiY) ==
  LET uiX == run.blocks[uiY]
      out == InterpolateBlock(filter, Buffer, run.maps, uiY, uiX)
  IN /\ IF call.op = "ProcessGray"
        THEN /\ image' = out
             /\ run' = [run EXCEPT !.blocks[uiY] = uiX + 1]
        ELSE /\ run' = [run EXCEPT !.blocks[uiY] = uiX + 1, !.buf = out]
             /\ UNCHANGED image
     /\ UNCHANGED <<filter, win64, call, clip>>

\* CSerialAltaLuxFilter::Run: one row after the other, tiles then blocks
SerialTile ==
  \E uiY \in Rows :
    /\ run.pc = "rows" /\ call.strategy = "serial"
    /\ \A y \in 0..(uiY - 1) : RowDone(y)
    /\ TilesLeft(uiY)
    /\ Tile(uiY)

SerialBlock ==
  \E uiY \in Rows :
    /\ run.pc = "rows" /\ call.strategy = "serial"
    /\ \A y \in 0..(uiY - 1) : RowDone(y)
    /\ TilesDone(uiY) /\ BlocksLeft(uiY)
    /\ Block(uiY)

\* CParallelSplitLoopAltaLuxFilter::Run: the first parallel_for returns
\* before the second starts
SplitLoopTile ==
  \E uiY \in Rows :
    /\ run.pc = "rows" /\ call.strategy = "splitLoop"
    /\ TilesLeft(uiY)
    /\ Tile(uiY)

\* a second loop whose tasks do not wait for the first loop to return
SplitLoopBlockNoBarrier ==
  \E uiY \in Rows :
    /\ run.pc = "rows" /\ call.strategy = "splitLoop"
    /\ BlocksLeft(uiY)
    /\ Block(uiY)

SplitLoopBlock ==
  \E uiY \in Rows :
    /\ run.pc = "rows" /\ call.strategy = "splitLoop"
    /\ \A y \in Rows : TilesDone(y)
    /\ BlocksLeft(uiY)
    /\ Block(uiY)

\* the event-based Run: the phase 2 task of row uiY waits for the signals
\* that phase 1 of the rows uiY - 1 and uiY has completed
EventTile ==
  \E uiY \in Rows :
    /\ run.pc = "rows" /\ call.strategy = "event"
    /\ TilesLeft(uiY)
    /\ Tile(uiY)

EventBlock ==
  \E uiY \in Rows :
    /\ run.pc = "rows" /\ call.strategy = "event"
    /\ TilesDone(uiYU(filter, uiY)) /\ TilesDone(uiYB(filter, uiY))
    /\ BlocksLeft(uiY)
    /\ Block(uiY)

\* a wait that ends as soon as the previous line has published any column
PrevLineReadyAnyColumn(f, statePrevLine, uiX) == statePrevLine > -1

\* the test that ends the active wait of block uiX on the previous line
PrevLineReady(f, statePrevLine, uiX) ==
  /\ statePrevLine > -1
  /\ (statePrevLine >= uiXR(f, uiX) \/ statePrevLine = f.NumHorRegions - 1)

\* CParallelActiveWaitAltaLuxFilter::Run: each row task does its tiles and
\* then its blocks, each block once the previous line is far enough
ActiveWaitTile ==
  \E uiY \in Rows :
    /\ run.pc = "rows" /\ call.strategy = "activeWait"
    /\ TilesLeft(uiY)
    /\ Tile(uiY)

ActiveWaitBlock ==
  \E uiY \in Rows :
    /\ run.pc = "rows" /\ call.strategy = "activeWait"
    /\ TilesDone(uiY) /\ BlocksLeft(uiY)
    /\ uiY > 0 => PrevLineReady(filter, run.FirstPhaseCompleted[uiY - 1], run.blocks[uiY])
    /\ Block(uiY)

\* Run returns AL_OK
RunReturn ==
  /\ run.pc = "rows"
  /\ \A uiY \in Rows : RowDone(uiY)
  /\ run' = [run EXCEPT !.pc = "returned"]
  /\ UNCHANGED <<filter, win64, call, image, clip>>

\* ProcessGray after Run(): ImageBuffer is restored.
\* ProcessGeneric after Run(): InjectYComponent
ProcessEnd ==
  /\ run.pc = "returned"
  /\ IF call.op = "ProcessGray"
     THEN /\ filter' = [filter EXCEPT !.ImageBuffer = run.SavedImageBuffer]
          /\ UNCHANGED image
     ELSE /\ image' = InjectYComponent(filter, image, run.buf, Factors(call.op))
          /\ UNCHANGED filter
  /\ run' = [run EXCEPT !.pc = "done"]
  /\ UNCHANGED <<win64, call, clip>>

NextRun ==
  \/ ProcessBegin
  \/ RunBegin
  \/ SerialTile
  \/ SerialBlock
  \/ SplitLoopTile
  \/ SplitLoopBlock
  \/ EventTile
  \/ EventBlock
  \/ ActiveWaitTile
  \/ ActiveWaitBlock
  \/ RunReturn
  \/ ProcessEnd

SpecRun == InitRun /\ [][NextRun]_vars

\* C1: when the Run of any strategy returns, under any interleaving of its
\* row tasks, the buffer holds byte for byte what the serial Run makes of
\* the buffer it was entered with
C1_StrategiesAgree ==
  run.pc = "returned" => Buffer = SerialRun(filter, run.start, TRUE).buf

\* the Run of a parallel strategy has returned and has changed the buffer
C1_ParallelRunReturned ==
  /\ run.pc = "returned"
  /\ call.strategy = "activeWait"
  /\ Buffer # run.start

\* a filter as the constructor leaves it with the default tile counts
DefaultFilter(f) ==
  f = [Construct(f.OriginalImageWidth, f.OriginalImageHeight, DEFAULT_HOR_REGIONS,
                 DEFAULT_VERT_REGIONS, TRUE) EXCEPT !.ImageBuffer = f.ImageBuffer]

\* not all pixels of the colour image have the same colour
NonUniform(Image, PixelOffset) ==
  \E j \in DOMAIN Image :
    j >= PixelOffset /\ j % PixelOffset <= 2 /\ Image[j] # Image[j - PixelOffset]

\* C3: a filter with the default strength and the default 8 x 8 grid is
\* enabled and its ClipLimit is not 1.0; a ProcessRGB32 call on it runs both
\* phases on every row, and the image it leaves differs from a non-uniform
\* input
C3_DefaultFilterProcesses ==
  (call.op = "ProcessRGB32" /\ DefaultFilter(filter)) =>
    /\ IsEnabled(filter)
    /\ ~ClipLimitIsOne(filter)
    /\ run.pc = "done" =>
         /\ \A uiY \in Rows : RowDone(uiY)
         /\ NonUniform(call.input, 4) => image # call.input

\* a ProcessRGB32 call on the default filter is done on a non-uniform image
C3_DefaultFilterDone ==
  /\ call.op = "ProcessRGB32" /\ DefaultFilter(filter)
  /\ filter.Strength = AL_DEFAULT_STRENGTH + 4
  /\ run.pc = "done"
  /\ NonUniform(call.input, 4)
  /\ image # call.input

\* C11: ProcessRGB32 and ProcessBGR32 leave the fourth byte of every pixel
\* as it was, and up to the injection (through ExtractYComponent and Run) the
\* caller's image is unchanged
C11_FourthByteUntouched ==
  call.op \in {"ProcessRGB32", "ProcessBGR32"} =>
    /\ \A j \in DOMAIN image : j % 4 = 3 => image[j] = call.input[j]
    /\ run.pc # "done" => image = call.input

\* a ProcessBGR32 call is done and has changed the image
C11_BGR32Done ==
  /\ call.op = "ProcessBGR32"
  /\ run.pc = "done"
  /\ image # call.input

(***************************************************************************)
(* Properties of Spec                                                      *)
(***************************************************************************)
\* C2: once strength was set through SetStrength(0), ClipLimit is 1.0, and
\* every ProcessGray / ProcessRGB24/32 / ProcessBGR24/32 call on an image
\* returns AL_OK without writing into the caller's buffer
C2_StrengthZeroIsPassThrough ==
  call.strengthArg = 0 =>
    /\ ClipLimitIsOne(filter)
    /\ (call.op \in {"ProcessGray"} \cup GenericOps /\ call.image = "pixels")
         => (call.ret = Returns(AL_OK) /\ ~call.written)

\* C4: whenever the filter is disabled the luminance working buffer is not
\* allocated
C4_DisabledHasNoBuffer == ~IsEnabled(filter) => filter.ImageBuffer = "null"

\* C5: after construction and after every SetSlices call both tile counts
\* lie in [2,16]
C5_RegionsInRange ==
  /\ filter.NumHorRegions \in MIN_HOR_REGIONS..MAX_HOR_REGIONS
  /\ filter.NumVertRegions \in MIN_VERT_REGIONS..MAX_VERT_REGIONS

\* C6: the stored strength lies in [0,100], ClipLimit lies in [1.0, 5.0], and
\* a SetStrength call whose argument is not below the previous call's leaves
\* a ClipLimit that is not below the previous one
C6_ClipLimitBoundedMonotone ==
  /\ filter.Strength \in AL_MIN_STRENGTH..AL_MAX_STRENGTH
  /\ F32Le(F32FromInt(1), filter.ClipLimit)
  /\ F32Le(filter.ClipLimit, F32FromInt(5))
  /\ (call.op = "SetStrength" /\ call.prevStrengthArg <= call.strengthArg)
       => F32Le(call.prevClipLimit, filter.ClipLimit)

\* C8: every ProcessXxx call with a null image returns AL_NULL_IMAGE and
\* leaves the filter as it was
C8_NullImageRejected ==
  (call.op \in ProcessOps /\ call.image = "null")
    => (call.ret = Returns(AL_NULL_IMAGE) /\ ~call.changed)

\* C9: when the allocation of the mapping array inside Run fails, the
\* ProcessXxx call returns AL_OUT_OF_MEMORY and has not written into the
\* caller's buffer
C9_MapAllocationFailureReturned ==
  call.run = "allocFailed" => (call.ret = Returns(AL_OUT_OF_MEMORY) /\ ~call.written)

\* the tiled sizes are the largest multiples of the tile counts that fit
TiledSizesFit(f) ==
  /\ f.ImageWidth = f.RegionWidth * f.NumHorRegions
  /\ f.ImageHeight = f.RegionHeight * f.NumVertRegions
  /\ 0 <= f.OriginalImageWidth - f.ImageWidth
  /\ f.OriginalImageWidth - f.ImageWidth < f.NumHorRegions
  /\ 0 <= f.OriginalImageHeight - f.ImageHeight
  /\ f.OriginalImageHeight - f.ImageHeight < f.NumVertRegions

\* C12: after construction and after every call ImageWidth and ImageHeight
\* are RegionWidth * NumHorRegions and RegionHeight * NumVertRegions, the
\* largest multiples of the tile counts not above the original sizes; and a
\* SetSlices call changes neither Strength, ClipLimit nor ImageBuffer
C12_TiledSizes ==
  /\ [](TiledSizesFit(filter))
  /\ [][call'.op = "SetSlices" =>
          /\ filter'.Strength = filter.Strength
          /\ filter'.ClipLimit = filter.ClipLimit
          /\ filter'.ImageBuffer = filter.ImageBuffer]_vars

\* a SetSlices call has changed the tiling, to one that leaves a remainder
C12_SlicesChanged ==
  /\ call.op = "SetSlices"
  /\ call.changed
  /\ filter.ImageWidth < filter.OriginalImageWidth
  /\ filter.ImageBuffer = "alloc"

\* the tiles whose mappings block uiX of row uiY interpolates between
TilesRead(f, uiY, uiX) ==
  {<<y, x>> : y \in {uiYU(f, uiY), uiYB(f, uiY)}, x \in {uiXL(f, uiX), uiXR(f, uiX)}}

\* C13: in every strategy and under every interleaving, each block that has
\* been interpolated read the mappings of tiles whose MakeHistogram,
\* ClipHistogram and MapHistogram had completed (a Block step leaves the tile
\* counts as they were, so the state after it shows what it found)
C13_BlocksReadCompleteMappings ==
  run.tiles # <<>> =>
    \A uiY \in Rows : \A uiX \in 0..(run.blocks[uiY] - 1) :
      \A t \in TilesRead(filter, uiY, uiX) : run.tiles[t[1]] > t[2]

\* active wait: a block of row 1 is interpolated while row 0 still has a
\* tile to map
C13_BlockBeforeLineEnds ==
  /\ call.strategy = "activeWait"
  /\ run.pc = "rows"
  /\ run.blocks[1] > 0
  /\ run.tiles[0] < filter.NumHorRegions

\* C14: in the split-loop Run no block is interpolated before every tile of
\* the Run is mapped, and the Run has returned only when every block of
\* every row is interpolated
C14_SplitLoopBarrier ==
  (call.strategy = "splitLoop" /\ run.tiles # <<>> /\ ~ClipLimitIsOne(filter)) =>
    /\ (\E uiY \in Rows : run.blocks[uiY] > 0) => \A y \in Rows : TilesDone(y)
    /\ run.pc \in {"returned", "done"} => \A uiY \in Rows : RowDone(uiY)

\* the second loop of a split-loop Run is under way: some blocks are
\* interpolated, others are not
C14_SecondLoopUnderWay ==
  /\ call.strategy = "splitLoop"
  /\ run.pc = "rows"
  /\ \E uiY \in Rows : run.blocks[uiY] > 0
  /\ \E uiY \in Rows : BlocksLeft(uiY)

\* a row task of the active-wait Run that can take its next step: it has a
\* tile to map, or a block to interpolate whose wait has ended
CanStep(uiY) ==
  \/ TilesLeft(uiY)
  \/ /\ TilesDone(uiY) /\ BlocksLeft(uiY)
     /\ uiY > 0 => PrevLineReady(filter, run.FirstPhaseCompleted[uiY - 1], run.blocks[uiY])

\* C15: in the active-wait Run, with every row task scheduled again and
\* again, every spin-wait exits and Run returns: as long as a row is not
\* done some row task can step, and no step is one that never ends
C15_ActiveWaitReturns ==
  call.strategy = "activeWait" =>
    /\ run.pc = "rows" => (\A uiY \in Rows : RowDone(uiY)) \/ (\E uiY \in Rows : CanStep(uiY))
    /\ run.pc # "forever"

\* C16: in the active-wait Run every row 0..NumVertRegions has a completion
\* marker, which starts at -1 and moves up by the steps of the row's own
\* tile loop only: it is -1 or the column of a tile, and when it holds c the
\* tiles 0..c of the row are mapped
C16_MarkersFollowTiles ==
  (call.strategy = "activeWait" /\ run.tiles # <<>>) =>
    /\ run.pc # "overrun"
    /\ \A uiY \in DOMAIN run.FirstPhaseCompleted :
         /\ run.FirstPhaseCompleted[uiY] \in -1..(filter.NumHorRegions - 1)
         /\ run.FirstPhaseCompleted[uiY] < run.tiles[uiY]
         /\ uiY >= filter.NumVertRegions => run.FirstPhaseCompleted[uiY] = -1

\* the pixels MakeHistogram counts for tile uiX of tile row uiY
TilePixels(f, uiY, uiX) ==
  LET p == RowOffset(f, uiY) + uiX * f.RegionWidth
  IN {p + r * f.OriginalImageWidth + c :
        r \in 0..(f.RegionHeight - 1), c \in 0..(f.RegionWidth - 1)}

\* the tiles mapped so far
MappedTiles ==
  {t \in (0..(filter.NumVertRegions - 1)) \X (0..(filter.NumHorRegions - 1)) :
     run.tiles[t[1]] > t[2]}

\* C17: the tiles phase 1 has mapped read pairwise disjoint parts of the
\* image: no pixel is counted in the histograms of two tiles, whether of the
\* same tile row or of different tile rows
C17_TilesReadDisjointPixels ==
  run.tiles # <<>> =>
    \A t \in MappedTiles, u \in MappedTiles :
      t # u => TilePixels(filter, t[1], t[2]) \cap TilePixels(filter, u[1], u[2]) = {}

\* the pixels Interpolate writes for block uiX of block row uiY
BlockPixels(f, uiY, uiX) ==
  LET p == RowOffset(f, uiY) + ColOffset(f, uiX)
  IN {p + y * f.OriginalImageWidth + x :
        y \in 0..(uiSubY(f, uiY) - 1), x \in 0..(uiSubX(f, uiX) - 1)}

\* the blocks interpolated so far
InterpolatedBlocks ==
  {b \in Rows \X (0..filter.NumHorRegions) : run.blocks[b[1]] > b[2]}

\* C18: under every interleaving the blocks interpolated in a Run are
\* pairwise disjoint sets of pixels, and the step that interpolates a block
\* changes no pixel outside its block: no pixel is written by two tasks
C18_BlocksWriteDisjointPixels ==
  /\ [](run.tiles # <<>> =>
          \A b \in InterpolatedBlocks, c \in InterpolatedBlocks :
            b # c => BlockPixels(filter, b[1], b[2]) \cap BlockPixels(filter, c[1], c[2]) = {})
  /\ [][run.pc = "rows" =>
          \A uiY \in Rows :
            run'.blocks[uiY] # run.blocks[uiY] =>
              \A i \in DOMAIN Buffer :
                Buffer'[i] # Buffer[i] => i \in BlockPixels(filter, uiY, run.blocks[uiY])]_vars

\* the second loop of a split-loop Run has interpolated blocks of two rows
\* and changed the image
C18_TwoRowsInterpolated ==
  /\ call.strategy = "splitLoop"
  /\ run.pc = "rows"
  /\ run.blocks[0] > 1 /\ run.blocks[1] > 1
  /\ Buffer # run.start

\* the tiles still to be mapped
UnmappedTiles ==
  ((0..(filter.NumVertRegions - 1)) \X (0..(filter.NumHorRegions - 1))) \ MappedTiles

\* C19: in the serial and the active-wait Run, under every interleaving, no
\* block that shares a pixel with a tile is interpolated before the tile is
\* mapped, and so each tile step finds the original pixel values in its tile
C19_HistogramsReadOriginalPixels ==
  /\ []((call.strategy \in {"serial", "activeWait"} /\ run.tiles # <<>>) =>
          \A b \in InterpolatedBlocks, t \in UnmappedTiles :
            BlockPixels(filter, b[1], b[2]) \cap TilePixels(filter, t[1], t[2]) = {})
  /\ [][(call.strategy \in {"serial", "activeWait"} /\ run.pc = "rows") =>
          \A uiY \in Rows :
            run'.tiles[uiY] # run.tiles[uiY] =>
              \A i \in TilePixels(filter, uiY, run.tiles[uiY]) : Buffer[i] = run.start[i]]_vars

\* active wait: a block of row 1 has changed the image while row 0 still
\* has a tile to map
C19_BlockWrittenBeforeLineEnds ==
  /\ call.strategy = "activeWait"
  /\ run.pc = "rows"
  /\ run.blocks[1] > 0
  /\ run.tiles[0] < filter.NumHorRegions
  /\ Buffer # run.start

\* the sum of the 256 bins
HistogramSum(h) ==
  LET Add(sum, i) == sum + h[i]
  IN Fold(Add, 0, 0, NUM_GRAY_LEVELS - 1)

\* C20: when a ClipHistogram call has returned, the sum of the bins is the
\* sum of the bins of the histogram the call was entered with
C20_ClipConservesSum ==
  clip.pc = "done" => HistogramSum(clip.h) = HistogramSum(clip.entered)

\* C21: when a ClipHistogram call has returned, the clip limit it was given
\* is at least 1 and no bin of the histogram exceeds it
C21_NoBinAboveClipLimit ==
  clip.pc = "done" =>
    /\ clip.ClipLimit >= 1
    /\ \A i \in DOMAIN clip.h : ~ULt(clip.ClipLimit, clip.h[i])

\* a returned call on a tile of the 16 x 16 image with a 2 x 2 grid at the
\* maximum strength, entered with a bin over the clip limit
C21_ClippedAtMaxStrength ==
  /\ clip.pc = "done"
  /\ filter.OriginalImageWidth = 16 /\ filter.OriginalImageHeight = 16
  /\ filter.NumHorRegions = 2 /\ filter.NumVertRegions = 2
  /\ filter.Strength = AL_MAX_STRENGTH
  /\ \E i \in DOMAIN clip.entered : ULt(clip.ClipLimit, clip.entered[i])

\* C22: the table MapHistogram leaves is non-decreasing in the gray level
\* and each of its entries lies in 0..255
C22_MappingMonotone ==
  clip.pc = "mapped" =>
    \A i \in DOMAIN clip.h :
      /\ clip.h[i] \in 0..MAX_GRAY_VALUE
      /\ i > 0 => clip.h[i - 1] <= clip.h[i]

\* a table that rises from its first entry to 255
C22_MappingRises ==
  /\ clip.pc = "mapped"
  /\ clip.h[0] < clip.h[NUM_GRAY_LEVELS - 1]
  /\ clip.h[NUM_GRAY_LEVELS - 1] = MAX_GRAY_VALUE

\* the sum of the areas of the blocks of one Run
BlockAreaSum(f) ==
  LET RowArea(uiY) ==
        LET Add(sum, uiX) == sum + uiSubX(f, uiX) * uiSubY(f, uiY)
        IN Fold(Add, 0, 0, f.NumHorRegions)
      AddRow(sum, uiY) == sum + RowArea(uiY)
  IN Fold(AddRow, 0, 0, f.NumVertRegions)

\* C23: the areas of the (NumHorRegions + 1) x (NumVertRegions + 1) blocks a
\* Run has interpolated sum to ImageWidth x ImageHeight
C23_BlocksSumToImage ==
  (run.tiles # <<>> /\ \A uiY \in Rows : RowDone(uiY)) =>
    BlockAreaSum(filter) = filter.ImageWidth * filter.ImageHeight

\* floor(ClipLimit * RegionWidth * RegionHeight / 256) in exact arithmetic,
\* raised to at least 1, for the stored ClipLimit m * 2^e (1 <= ClipLimit <= 5,
\* so e <= -21) and tiles of fewer than 2^19 pixels; the product is formed
\* from 12-bit halves of m
ExactCap(f) ==
  LET NumPixels == f.RegionWidth * f.RegionHeight
      mh == f.ClipLimit.m \div 4096
      ml == f.ClipLimit.m % 4096
  IN Max(1, (mh * NumPixels + (ml * NumPixels) \div 4096)
              \div Pow2(-f.ClipLimit.e - 4))

\* C24: the clip cap a Run hands to ClipHistogram is at least 1 and is the
\* exact floor of ClipLimit * RegionWidth * RegionHeight / 256 raised to 1,
\* or one more or one less than it
C24_CapNearExactFloor ==
  call.op = "ClipHistogram" =>
    /\ clip.ClipLimit >= 1
    /\ clip.ClipLimit \in (ExactCap(filter) - 1)..(ExactCap(filter) + 1)

\* a call whose cap is not the exact floor
C24_CapRounded ==
  /\ call.op = "ClipHistogram"
  /\ clip.pc = "done"
  /\ clip.ClipLimit # ExactCap(filter)

\* C24 as stated: the cap is the exact floor raised to at least 1
C24_CapIsExactFloor ==
  call.op = "ClipHistogram" => clip.ClipLimit = ExactCap(filter)

\* the blocks of the first and last block row, and of the first and last
\* block column
OnBorderY(f, uiY) == uiY \in {0, f.NumVertRegions}
OnBorderX(f, uiX) == uiX \in {0, f.NumHorRegions}

\* C25: a block on a border of the image takes both mappings across that
\* border from the outer tile; an inner block reads four different tiles; in
\* an interpolated corner block every pixel is the corner tile's mapping of
\* the value the pixel had when Run started
C25_BorderBlocksUseOuterTile ==
  run.tiles # <<>> =>
    \A uiY \in Rows : \A uiX \in 0..filter.NumHorRegions :
      LET U == uiYU(filter, uiY)
          B == uiYB(filter, uiY)
          L == uiXL(filter, uiX)
          R == uiXR(filter, uiX)
      IN /\ OnBorderY(filter, uiY) =>
              U = B /\ U = (IF uiY = 0 THEN 0 ELSE filter.NumVertRegions - 1)
         /\ OnBorderX(filter, uiX) =>
              L = R /\ L = (IF uiX = 0 THEN 0 ELSE filter.NumHorRegions - 1)
         /\ (~OnBorderY(filter, uiY) /\ ~OnBorderX(filter, uiX)) =>
              Cardinality({TileIndex(filter, t[1], t[2]) :
                             t \in TilesRead(filter, uiY, uiX)}) = 4
         /\ (OnBorderY(filter, uiY) /\ OnBorderX(filter, uiX)
                /\ run.blocks[uiY] > uiX) =>
              \A i \in BlockPixels(filter, uiY, uiX) :
                Buffer[i] = run.maps[TileIndex(filter, U, L)][run.start[i]]

\* a Run that has interpolated its four corner blocks, the first of them by
\* the division path, and that changed the image
C25_CornersInterpolated ==
  /\ run.pc = "returned"
  /\ run.tiles # <<>>
  /\ \A uiY \in Rows : RowDone(uiY)
  /\ uiSubX(filter, 0) * uiSubY(filter, 0) = 3
  /\ Buffer # run.start

\* C26: in an interpolated block the pixel at (x, y), of value g when Run
\* started, holds a value within less than 1 of the average of the four
\* mappings at g with the weights (height - y)(width - x), (height - y) x,
\* y (width - x), y x over width * height, and between the smallest and the
\* largest of the four mapped values
C26_InterpolateWeightedAverage ==
  run.tiles # <<>> =>
    \A b \in InterpolatedBlocks :
      LET uiY    == b[1]
          uiX    == b[2]
          p      == RowOffset(filter, uiY) + ColOffset(filter, uiX)
          width  == uiSubX(filter, uiX)
          height == uiSubY(filter, uiY)
          LU == run.maps[TileIndex(filter, uiYU(filter, uiY), uiXL(filter, uiX))]
          RU == run.maps[TileIndex(filter, uiYU(filter, uiY), uiXR(filter, uiX))]
          LB == run.maps[TileIndex(filter, uiYB(filter, uiY), uiXL(filter, uiX))]
          RB == run.maps[TileIndex(filter, uiYB(filter, uiY), uiXR(filter, uiX))]
      IN \A y \in 0..(height - 1) : \A x \in 0..(width - 1) :
           LET i == p + y * filter.OriginalImageWidth + x
               g == run.start[i]
               S == (height - y) * (width - x) * LU[g] + (height - y) * x * RU[g]
                    + y * (width - x) * LB[g] + y * x * RB[g]
               mapped == {LU[g], RU[g], LB[g], RB[g]}
           IN /\ Abs(width * height * Buffer[i] - S) < width * height
              /\ \E lo \in mapped : lo <= Buffer[i]
              /\ \E hi \in mapped : Buffer[i] <= hi
              /\ Buffer[i] \in 0..MAX_GRAY_VALUE

\* an interpolated inner block with a pixel whose four mapped values differ
\* and whose weighted sum is no multiple of the block area
C26_InnerBlockInterpolated ==
  /\ run.tiles # <<>>
  /\ run.blocks[1] > 1
  /\ filter.NumHorRegions > 1 /\ filter.NumVertRegions > 1
  /\ LET p      == RowOffset(filter, 1) + ColOffset(filter, 1)
         width  == uiSubX(filter, 1)
         height == uiSubY(filter, 1)
         LU == run.maps[TileIndex(filter, 0, 0)]
         RU == run.maps[TileIndex(filter, 0, 1)]
         LB == run.maps[TileIndex(filter, 1, 0)]
         RB == run.maps[TileIndex(filter, 1, 1)]
     IN \E y \in 1..(height - 1) : \E x \in 1..(width - 1) :
          LET g == run.start[p + y * filter.OriginalImageWidth + x]
              S == (height - y) * (width - x) * LU[g] + (height - y) * x * RU[g]
                   + y * (width - x) * LB[g] + y * x * RB[g]
          IN /\ Cardinality({LU[g], RU[g], LB[g], RB[g]}) > 2
             /\ S % (width * height) # 0

\* C27: in an interpolated block whose area A is a power of two, every pixel
\* holds the value the rounded division (S + A/2) / A gives for its
\* weighted sum S
C27_ShiftPathRounds ==
  run.tiles # <<>> =>
    \A b \in InterpolatedBlocks :
      LET uiY    == b[1]
          uiX    == b[2]
          p      == RowOffset(filter, uiY) + ColOffset(filter, uiX)
          width  == uiSubX(filter, uiX)
          height == uiSubY(filter, uiY)
          A      == width * height
          LU == run.maps[TileIndex(filter, uiYU(filter, uiY), uiXL(filter, uiX))]
          RU == run.maps[TileIndex(filter, uiYU(filter, uiY), uiXR(filter, uiX))]
          LB == run.maps[TileIndex(filter, uiYB(filter, uiY), uiXL(filter, uiX))]
          RB == run.maps[TileIndex(filter, uiYB(filter, uiY), uiXR(filter, uiX))]
      IN IsPowerOfTwoOrZero(A) =>
           \A y \in 0..(height - 1) : \A x \in 0..(width - 1) :
             LET i == p + y * filter.OriginalImageWidth + x
                 g == run.start[i]
                 S == (height - y) * (width - x) * LU[g] + (height - y) * x * RU[g]
                      + y * (width - x) * LB[g] + y * x * RB[g]
             IN Buffer[i] = (S + A \div 2) \div A

\* C28: IsEnabled() is false exactly when ClipLimit == 1.0; a Run that
\* returned at once was made on a filter that is not enabled and, in
\* ProcessGray, left the image unwritten; a Run that went on to its rows
\* was made on an enabled filter
C28_IsEnabledMatchesRun ==
  /\ IsEnabled(filter) <=> ~ClipLimitIsOne(filter)
  /\ call.run = "passthrough" => ~IsEnabled(filter)
  /\ (call.run = "passthrough" /\ call.op = "ProcessGray") => ~call.written
  /\ call.run \in {"rows", "allocFailed"} => IsEnabled(filter)

\* a ProcessGray whose Run returned at once, after a second SetStrength
C28_DisabledRunReturnedAtOnce ==
  /\ call.op = "ProcessGray"
  /\ call.run = "passthrough"
  /\ call.ret = Returns(AL_OK)
  /\ call.strengthArg # AL_DEFAULT_STRENGTH
  /\ ~IsEnabled(filter)

\* C29: a ProcessGray call that returns leaves ImageBuffer as it was before
\* the call, and the destructor never frees the caller's image
C29_CallerBufferNeverFreed ==
  /\ [](call.op = "destroy" => call.arg # "caller")
  /\ [][(call'.op = "ProcessGray" /\ call'.ret # Throws)
          => filter'.ImageBuffer = filter.ImageBuffer]_vars

(***************************************************************************)
(* SpecPreview: one DoProcessing call of the plugin. The filter made by    *)
(* InstantiateFilter is shared by the blocks of the call; each block locks *)
(* its preview image and, if the image is alive, configures the filter and *)
(* processes the image.                                                    *)
(*   call.alive    which preview images are alive                          *)
(*   run.pc        the block the call is at                                *)
(*   run.used      per processed preview, the strength and grid the filter *)
(*                 had when it processed the image                         *)
(***************************************************************************)
STRENGTH_DELTA == 15
SLICE_DELTA == 2
FilterIntensities == {10, AL_DEFAULT_STRENGTH, AL_MAX_STRENGTH}
FilterScales == {MIN_HOR_REGIONS, DEFAULT_HOR_REGIONS, MAX_HOR_REGIONS}
Previews == {"main", "weaker", "stronger", "coarser", "finer"}

InitPreview ==
  \E FilterIntensity \in FilterIntensities, FilterScale \in FilterScales,
     IsRescalingEnabled \in BOOLEAN, alive \in [Previews -> BOOLEAN] :
    /\ filter = Construct(64, 48, FilterScale, FilterScale, TRUE)
    /\ win64 = FALSE
    /\ call = [op |-> "DoProcessing", FilterIntensity |-> FilterIntensity,
               FilterScale |-> FilterScale, IsRescalingEnabled |-> IsRescalingEnabled,
               alive |-> alive]
    /\ image = <<>>
    /\ run = [pc |-> "main", processed |-> {},
              used |-> [v \in Previews |-> [Strength |-> 0, NumHorRegions |-> 0,
                                            NumVertRegions |-> 0]]]
    /\ clip = Idle

\* one block: if the image is alive, the filter is configured and
\* processImage runs ProcessRGB24 or ProcessRGB32 on the image
PreviewBlock(v, next, configured) ==
  /\ call.op = "DoProcessing"
  /\ run.pc = v
  /\ IF call.alive[v]
     THEN /\ filter' = ProcessGeneric(configured, "pixels", TRUE, TRUE).filter
          /\ run' = [pc |-> next, processed |-> run.processed \cup {v},
                     used |-> [run.used EXCEPT ![v] =
                                 [Strength |-> configured.Strength,
                                  NumHorRegions |-> configured.NumHorRegions,
                                  NumVertRegions |-> configured.NumVertRegions]]]
     ELSE /\ run' = [run EXCEPT !.pc = next]
          /\ UNCHANGED filter
  /\ UNCHANGED <<win64, call, image, clip>>

PreviewMain ==
  PreviewBlock("main", IF call.IsRescalingEnabled THEN "weaker" ELSE "end",
               SetStrengthOp(filter, call.FilterIntensity, TRUE))

PreviewWeaker ==
  PreviewBlock("weaker", "stronger",
               SetStrengthOp(filter, Max(call.FilterIntensity - STRENGTH_DELTA,
                                         AL_MIN_STRENGTH), TRUE))

PreviewStronger ==
  PreviewBlock("stronger", "coarser",
               SetStrengthOp(filter, Min(call.FilterIntensity + STRENGTH_DELTA,
                                         AL_MAX_STRENGTH), TRUE))

PreviewCoarser ==
  PreviewBlock("coarser", "finer",
               SetSlicesOp(filter, Max(call.FilterScale - SLICE_DELTA, MIN_HOR_REGIONS),
                           Max(call.FilterScale - SLICE_DELTA, MIN_VERT_REGIONS)))

PreviewFiner ==
  PreviewBlock("finer", "end",
               SetSlicesOp(filter, Min(call.FilterScale + SLICE_DELTA, MAX_HOR_REGIONS),
                           Min(call.FilterScale + SLICE_DELTA, MAX_VERT_REGIONS)))

NextPreview ==
  \/ PreviewMain
  \/ PreviewWeaker
  \/ PreviewStronger
  \/ PreviewCoarser
  \/ PreviewFiner

SpecPreview == InitPreview /\ [][NextPreview]_vars

\* C30: every processed preview differs from the main one in one parameter:
\* the main preview has the strength of SetStrength(FilterIntensity) and the
\* grid FilterScale; the weaker and the stronger preview have that grid and
\* the strength of SetStrength(FilterIntensity -/+ 15), within the strength
\* range; the coarser and the finer preview have the strength of the main
\* preview and the grid FilterScale -/+ 2, within the grid range
C30_PreviewsDifferInOneParameter ==
  call.op = "DoProcessing" =>
    LET FI == call.FilterIntensity
        FS == call.FilterScale
        StrengthOf(arg) == SetStrengthOp(filter, arg, TRUE).Strength
        Was(v, Strength, h, w) ==
          v \in run.processed =>
            run.used[v] = [Strength |-> Strength, NumHorRegions |-> h,
                           NumVertRegions |-> w]
    IN /\ Was("main", StrengthOf(FI), FS, FS)
       /\ Was("weaker", StrengthOf(Max(FI - STRENGTH_DELTA, AL_MIN_STRENGTH)), FS, FS)
       /\ Was("stronger", StrengthOf(Min(FI + STRENGTH_DELTA, AL_MAX_STRENGTH)), FS, FS)
       /\ Was("coarser", StrengthOf(FI), Max(FS - SLICE_DELTA, MIN_HOR_REGIONS),
              Max(FS - SLICE_DELTA, MIN_VERT_REGIONS))
       /\ Was("finer", StrengthOf(FI), Min(FS + SLICE_DELTA, MAX_HOR_REGIONS),
              Min(FS + SLICE_DELTA, MAX_VERT_REGIONS))
====
